---- MODULE Spec2Model ----
(***************************************************************************)
(* A model of the path resolver (src/src/getOrElse.ts), its typed helpers  *)
(* and the weather reducer (src/src/index.tsx).                            *)
(*                                                                         *)
(* JavaScript values are tagged records of one shape:                      *)
(*   t  the tag: "undefined", "null", "boolean", "number", "string",       *)
(*      "function", "object", or "TypeError" (a raised exception)          *)
(*   n  the numeric payload (numbers; 1/0 for booleans)                    *)
(*   s  the string payload, a sequence of one-character strings ("NaN" on  *)
(*      the number NaN)                                                    *)
(*   c  the class of an object ("Object", "Array", "String", "Number",     *)
(*      "Boolean"), the name of a function, "" otherwise                   *)
(*   f  the own properties of an object: a function from keys (strings,    *)
(*      i.e. sequences of characters) to values                            *)
(***************************************************************************)
EXTENDS Integers, Sequences, FiniteSets, TLC

VARIABLES
    root,      \* the root value the resolver calls share
    orElse,    \* the default value the resolver calls share
    call,      \* the resolver call that has returned last, fn = "none" when idle
    result,    \* what that call returned (TypeError: it raised)
    weather,   \* the store's weather state
    last,      \* the action the reducer handled last
    lastKnown  \* the FETCH, FETCHED or ERROR action the reducer handled last

vars == <<root, orElse, call, result, weather, last, lastKnown>>
resolverVars == <<root, orElse, call, result>>
storeVars == <<weather, last, lastKnown>>

\* ------------------------------------------------------------------ values

NoProps == <<>>

Undefined == [t |-> "undefined", n |-> 0, s |-> <<>>, c |-> "", f |-> NoProps]
Null == [t |-> "null", n |-> 0, s |-> <<>>, c |-> "", f |-> NoProps]
Bool(b) == [t |-> "boolean", n |-> IF b THEN 1 ELSE 0, s |-> <<>>, c |-> "", f |-> NoProps]
Num(k) == [t |-> "number", n |-> k, s |-> <<>>, c |-> "", f |-> NoProps]
NaN == [t |-> "number", n |-> 0, s |-> <<"N", "a", "N">>, c |-> "", f |-> NoProps]
Str(chars) == [t |-> "string", n |-> 0, s |-> chars, c |-> "", f |-> NoProps]
Fn(cls) == [t |-> "function", n |-> 0, s |-> <<>>, c |-> cls, f |-> NoProps]
Obj(props) == [t |-> "object", n |-> 0, s |-> <<>>, c |-> "Object", f |-> props]
TypeError == [t |-> "TypeError", n |-> 0, s |-> <<>>, c |-> "", f |-> NoProps]

\* A string literal of the source, spelled as its characters.
K_a == <<"a">>
K_b == <<"b">>
K_empty == <<>>
K_length == <<"l", "e", "n", "g", "t", "h">>
K_constructor == <<"c", "o", "n", "s", "t", "r", "u", "c", "t", "o", "r">>
S_NaN == <<"N", "a", "N">>

IsNaN(v) == v.s = S_NaN /\ (v.t = "number" \/ (v.t = "object" /\ v.c = "Number"))

Digits == <<"0", "1", "2", "3", "4", "5", "6", "7", "8", "9">>

RECURSIVE NatToChars(_)
NatToChars(k) ==
    IF k < 10 THEN <<Digits[k + 1]>>
    ELSE NatToChars(k \div 10) \o <<Digits[(k % 10) + 1]>>

\* Number.prototype.toString for the integers of the model.
NumToChars(k) == IF k < 0 THEN <<"-">> \o NatToChars(-k) ELSE NatToChars(k)

\* An array literal [e1, ..., en]: index keys and length are own properties.
Arr(elems) ==
    [t |-> "object", n |-> Len(elems), s |-> <<>>, c |-> "Array",
     f |-> [k \in {NumToChars(i - 1) : i \in 1..Len(elems)} \cup {K_length} |->
              IF k = K_length THEN Num(Len(elems))
              ELSE elems[CHOOSE i \in 1..Len(elems) : NumToChars(i - 1) = k]]]

\* typeof v
TypeOf(v) == IF v.t = "null" THEN "object" ELSE v.t

\* Object(v): undefined and null give a fresh empty object, a primitive gives
\* its wrapper object, an object or function is returned as it is.
JsObject(v) ==
    CASE v.t \in {"undefined", "null"} -> Obj(NoProps)
      [] v.t = "boolean" -> [v EXCEPT !.t = "object", !.c = "Boolean"]
      [] v.t = "number" -> [v EXCEPT !.t = "object", !.c = "Number"]
      [] v.t = "string" ->
            [t |-> "object", n |-> 0, s |-> v.s, c |-> "String",
             f |-> [k \in {NumToChars(i - 1) : i \in 1..Len(v.s)} \cup {K_length} |->
                      IF k = K_length THEN Num(Len(v.s))
                      ELSE Str(<<v.s[CHOOSE i \in 1..Len(v.s) : NumToChars(i - 1) = k]>>)]]
      [] OTHER -> v

\* The constructor every object inherits from its prototype.
Constructor(o) == Fn(o.c)

\* Keys found on the prototype chain (the representative one of the model).
InheritedKeys == {K_constructor}

\* key in o : own or inherited property; a TypeError when o is no object.
HasProperty(o, key) ==
    IF o.t \notin {"object", "function"} THEN TypeError
    ELSE Bool(key \in DOMAIN o.f \/ key \in InheritedKeys)

\* o[key] : a TypeError on undefined and null, the wrapper's property on a
\* primitive, the own property or the inherited one on an object.
Lookup(w, key) ==
    IF key \in DOMAIN w.f THEN w.f[key]
    ELSE IF key \in InheritedKeys THEN Constructor(w)
    ELSE Undefined

Get(o, key) ==
    IF o.t \in {"undefined", "null"} THEN TypeError
    ELSE IF o.t = "function" THEN Lookup([o EXCEPT !.c = "Function"], key)
    ELSE Lookup(JsObject(o), key)

\* Boolean(v)
JsBoolean(v) ==
    CASE v.t \in {"undefined", "null"} -> Bool(FALSE)
      [] v.t = "boolean" -> v
      [] v.t = "number" -> Bool(v.n # 0 /\ ~IsNaN(v))
      [] v.t = "string" -> Bool(v.s # <<>>)
      [] OTHER -> Bool(TRUE)

RECURSIVE CharsToNat(_)
CharsToNat(chars) ==
    IF chars = <<>> THEN 0
    ELSE 10 * CharsToNat(SubSeq(chars, 1, Len(chars) - 1))
         + (CHOOSE d \in 0..9 : Digits[d + 1] = chars[Len(chars)])

\* Number(string) for the strings of the model: the empty string is 0, a run
\* of decimal digits is its value, anything else is NaN.
StringToNumber(chars) ==
    IF \A i \in 1..Len(chars) : \E d \in 1..10 : Digits[d] = chars[i]
    THEN Num(CharsToNat(chars))
    ELSE NaN

RECURSIVE JsString(_)
RECURSIVE Join(_)
\* Array.prototype.join(",") over the elements of an array object.
Join(elems) ==
    IF elems = <<>> THEN <<>>
    ELSE (IF Head(elems).t \in {"undefined", "null"} THEN <<>> ELSE JsString(Head(elems)).s)
         \o (IF Len(elems) = 1 THEN <<>> ELSE <<",">> \o Join(Tail(elems)))

Elements(o) == [i \in 1..o.n |-> o.f[NumToChars(i - 1)]]

\* String(v)
JsString(v) ==
    CASE v.t = "undefined" -> Str(<<"u", "n", "d", "e", "f", "i", "n", "e", "d">>)
      [] v.t = "null" -> Str(<<"n", "u", "l", "l">>)
      [] v.t = "boolean" \/ (v.t = "object" /\ v.c = "Boolean") ->
            IF v.n = 1 THEN Str(<<"t", "r", "u", "e">>) ELSE Str(<<"f", "a", "l", "s", "e">>)
      [] v.t = "number" \/ (v.t = "object" /\ v.c = "Number") ->
            IF IsNaN(v) THEN Str(S_NaN) ELSE Str(NumToChars(v.n))
      [] v.t = "string" \/ (v.t = "object" /\ v.c = "String") -> Str(v.s)
      [] v.t = "object" /\ v.c = "Array" -> Str(Join(Elements(v)))
      [] v.t = "function" -> Str(<<"f", "u", "n", "c", "t", "i", "o", "n">>)
      [] OTHER -> Str(<<"[", "o", "b", "j", "e", "c", "t", " ", "O", "b", "j", "e", "c", "t", "]">>)

\* Number(v)
JsNumber(v) ==
    CASE v.t = "undefined" -> NaN
      [] v.t = "null" -> Num(0)
      [] v.t = "boolean" \/ (v.t = "object" /\ v.c = "Boolean") -> Num(v.n)
      [] v.t = "number" \/ (v.t = "object" /\ v.c = "Number") ->
            IF IsNaN(v) THEN NaN ELSE Num(v.n)
      [] OTHER -> StringToNumber(JsString(v).s)

\* ---------------------------------------------------------------- resolver

RECURSIVE SplitFrom(_, _, _)
\* The segments of chars from position i on, segs being those read so far.
SplitFrom(chars, i, segs) ==
    IF i > Len(chars) THEN segs
    ELSE IF chars[i] = "." THEN SplitFrom(chars, i + 1, Append(segs, <<>>))
    ELSE SplitFrom(chars, i + 1, [segs EXCEPT ![Len(segs)] = Append(@, chars[i])])

\* dotPath.split('.'): the segments between the dots, empty ones kept.
Split(chars) == SplitFrom(chars, 1, << <<>> >>)

\* v !== undefined, or the exception the evaluation of v raised
NotUndefined(v) == IF v = TypeError THEN TypeError ELSE Bool(v # Undefined)

\* isValid, testing existence whatever the flag.
isValid_ExistenceOnly(r, field, requireDefined) == HasProperty(r, field)

\* isValid: root[field] !== undefined when requireDefined, else field in root.
isValid(r, field, requireDefined) ==
    IF requireDefined THEN NotUndefined(Get(r, field)) ELSE HasProperty(r, field)

\* ptr !== null && typeof ptr === 'object'
isObject(ptr) == ptr # Null /\ TypeOf(ptr) = "object"

\* Conditional, written ptr[curr] || orElse: a falsy value found is dropped.
Conditional_Falsy(valid, ptr, curr, oe) ==
    IF valid = TypeError THEN TypeError
    ELSE IF valid = Bool(TRUE) /\ JsBoolean(Get(ptr, curr)) = Bool(TRUE) THEN Get(ptr, curr)
    ELSE oe

\* valid ? ptr[curr] : orElse
Conditional(valid, ptr, curr, oe) ==
    IF valid = TypeError THEN TypeError
    ELSE IF valid = Bool(TRUE) THEN Get(ptr, curr)
    ELSE oe

\* isObject && isValid(ptr, curr, requireDefined) ? ptr[curr] : orElse
StepAt(ptr, curr, oe, requireDefined) ==
    IF ~isObject(ptr) THEN oe
    ELSE Conditional(isValid(ptr, curr, requireDefined), ptr, curr, oe)

\* The callback of the reduce: one segment of the walk.
Step(r, oe, requireDefined, acc, curr, idx) ==
    StepAt(IF idx = 0 THEN r ELSE acc, curr, oe, requireDefined)

RECURSIVE Reduce(_, _, _, _, _, _)
\* segs.reduce(callback, acc) from index idx on; an exception ends the call.
Reduce(segs, idx, r, oe, requireDefined, acc) ==
    IF acc = TypeError \/ idx >= Len(segs) THEN acc
    ELSE Reduce(segs, idx + 1, r, oe, requireDefined,
                Step(r, oe, requireDefined, acc, segs[idx + 1], idx))

\* getOrElse without the special case of the empty path.
getOrElse_NoSpecialCase(r, dotPath, oe, requireDefined) ==
    Reduce(Split(dotPath), 0, r, oe, requireDefined, oe)

getOrElse(r, dotPath, oe, requireDefined) ==
    IF r # Null /\ TypeOf(r) = "object" /\ dotPath = <<>> THEN r
    ELSE Reduce(Split(dotPath), 0, r, oe, requireDefined, oe)

\* Find, returning the last match instead of the first.
Find_LastMatch(vals) ==
    IF \E i \in 1..Len(vals) : vals[i] # Undefined
    THEN vals[CHOOSE i \in 1..Len(vals) :
                 /\ vals[i] # Undefined
                 /\ \A j \in (i + 1)..Len(vals) : vals[j] = Undefined]
    ELSE Undefined

\* Array.prototype.find with the predicate _ !== undefined.
Find(vals) ==
    IF \E i \in 1..Len(vals) : vals[i] # Undefined
    THEN vals[CHOOSE i \in 1..Len(vals) :
                 /\ vals[i] # Undefined
                 /\ \A j \in 1..(i - 1) : vals[j] = Undefined]
    ELSE Undefined

\* dotPaths.map(_ => getOrElse(root, _, undefined, true))
MapPaths(r, dotPaths) ==
    [i \in 1..Len(dotPaths) |-> getOrElse(r, dotPaths[i], Undefined, TRUE)]

\* .find(...) over the mapped values; an exception in the map ends the call.
FindIn(mapped) ==
    IF \E i \in 1..Len(mapped) : mapped[i] = TypeError THEN TypeError ELSE Find(mapped)

\* found !== undefined ? found : orElse
FoundOr(found, oe) == IF found # Undefined THEN found ELSE oe

multiPathsGetOrElse(r, dotPaths, oe) == FoundOr(FindIn(MapPaths(r, dotPaths)), oe)

\* A dotPath argument is [isArray |-> FALSE, path |-> chars] or
\* [isArray |-> TRUE, paths |-> sequence of chars].
defaultExport(r, dotPath, oe) ==
    IF dotPath.isArray THEN multiPathsGetOrElse(r, dotPath.paths, oe)
    ELSE getOrElse(r, dotPath.path, oe, FALSE)

getDefinedOrElse(r, dotPath, oe) ==
    IF dotPath.isArray THEN multiPathsGetOrElse(r, dotPath.paths, oe)
    ELSE getOrElse(r, dotPath.path, oe, TRUE)

Raises(v) == v = TypeError

\* Boolean(v), Number(v), Object(v) after a call that may have raised
BooleanOf(v) == IF Raises(v) THEN v ELSE JsBoolean(v)
NumberOf(v) == IF Raises(v) THEN v ELSE JsNumber(v)
ObjectOf(v) == IF Raises(v) THEN v ELSE JsObject(v)

getBooleanOr(r, dotPath, oe) == BooleanOf(getDefinedOrElse(r, dotPath, oe))

getNumberOr(r, dotPath, oe) == NumberOf(getDefinedOrElse(r, dotPath, oe))

getObjectOr(r, dotPath, oe) == ObjectOf(getDefinedOrElse(r, dotPath, oe))

\* getStringOr is written with Object(...), as the source is.
getStringOr(r, dotPath, oe) == ObjectOf(getDefinedOrElse(r, dotPath, oe))


\* ------------------------------------------------------- resolver inputs

MaxPathLen == 5
MaxPaths == 2

Alphabet == {"a", "."}

RECURSIVE StringsUpTo(_)
StringsUpTo(k) ==
    IF k = 0 THEN {<<>>}
    ELSE LET shorter == StringsUpTo(k - 1)
         IN  shorter \cup {<<ch>> \o w : ch \in Alphabet, w \in {x \in shorter : Len(x) = k - 1}}

ExtraPaths ==
    {K_b, <<"a", ".", "b">>, <<"b", ".", "a">>, <<"a", ".", "b", ".", "a">>, K_constructor}

SinglePaths == StringsUpTo(MaxPathLen) \cup ExtraPaths

CandidatePaths == {<<>>, K_a, K_b, <<"a", ".", "b">>}

RECURSIVE ListsUpTo(_)
ListsUpTo(k) ==
    IF k = 0 THEN {<<>>}
    ELSE LET shorter == ListsUpTo(k - 1)
         IN  shorter \cup {<<p>> \o l : p \in CandidatePaths, l \in {x \in shorter : Len(x) = k - 1}}

PathLists == ListsUpTo(MaxPaths)

One(p) == [isArray |-> FALSE, path |-> p, paths |-> <<>>]
Many(ps) == [isArray |-> TRUE, path |-> <<>>, paths |-> ps]

DotPathArgs == {One(p) : p \in SinglePaths} \cup {Many(ps) : ps \in PathLists}
HelperArgs == {One(p) : p \in CandidatePaths} \cup {Many(ps) : ps \in PathLists}

Leaves == {Undefined, Null, Num(5)}

Level1 == {Obj(f) : f \in UNION {[K -> Leaves] : K \in SUBSET {K_a, K_b}}}

Roots ==
    {Undefined, Null, Num(5), Str(K_a), Bool(TRUE), Fn("Object")}
    \cup Level1
    \cup {Obj(K_a :> o) : o \in Level1}
    \cup {Obj(K_a :> Obj(K_b :> Num(5)) @@ K_b :> Num(7)),
          Obj(K_a :> Obj(K_a :> Obj(K_a :> Num(5)))),
          Obj(K_a :> Obj(K_b :> Obj(K_a :> Undefined))),
          Obj(K_empty :> Num(5)),
          Obj(K_empty :> Undefined),
          Obj(K_empty :> Obj(K_empty :> Obj(K_a :> Null))),
          Obj(K_a :> Str(K_a)),
          Obj(K_a :> Arr(<<Num(5)>>)),
          Arr(<<Num(5)>>)}

Defaults ==
    {Undefined, Null, Num(0), Obj(NoProps), Obj(K_b :> Num(1)),
     Obj(K_a :> Obj(K_a :> Num(1)) @@ K_empty :> Num(2))}

Idle == [fn |-> "none", dotPath |-> One(<<>>), requireDefined |-> FALSE]

\* ------------------------------------------------------------------- store

K_c == <<"c">>
K_f == <<"f">>
K_temp == <<"t", "e", "m", "p">>
K_celsius == <<"c", "e", "l", "s", "i", "u", "s">>
K_fahrenheit == <<"f", "a", "h", "r", "e", "n", "h", "e", "i", "t">>
K_wind == <<"w", "i", "n", "d">>
K_speed == <<"s", "p", "e", "e", "d">>
K_direction == <<"d", "i", "r", "e", "c", "t", "i", "o", "n">>

S_calm == Str(<<"c", "a", "l", "m">>)
S_windy == Str(<<"w", "i", "n", "d", "y">>)
S_very_windy == Str(<<"v", "e", "r", "y", " ", "w", "i", "n", "d", "y">>)
S_empty == Str(<<>>)

cardinalPoints == <<Str(<<"N">>), Str(<<"E">>), Str(<<"S">>), Str(<<"W">>)>>

\* cardinalPoints.includes(dir) ? dir : 'N'
PointOrNorth(dir) ==
    IF \E i \in 1..Len(cardinalPoints) : cardinalPoints[i] = dir THEN dir ELSE Str(<<"N">>)

\* getWindDirection(maybeDir = 'N')
getWindDirection(maybeDir) ==
    PointOrNorth(IF maybeDir = Undefined THEN Str(<<"N">>) ELSE maybeDir)

\* a < b for a JavaScript number a and an integer b (false on NaN)
LessThan(a, b) == ~IsNaN(a) /\ a.n < b

CalmBelow == 20
WindyBelow == 40

\* The field initialisers of class WeatherState.
FieldDefaults ==
    [error |-> S_empty,
     temperature |-> [celsius |-> Num(0), fahrenheit |-> Num(0)],
     wind |-> [description |-> S_calm, direction |-> Str(<<"N">>), speed |-> Num(0)]]

\* FromJson, trying the legacy paths first.
FromJson_LegacyFirst(json) ==
    [error |-> FieldDefaults.error,
     temperature |->
        [celsius |-> JsNumber(defaultExport(json,
            Many(<<K_temp \o <<".">> \o K_celsius, K_c>>), Num(0))),
         fahrenheit |-> JsNumber(defaultExport(json,
            Many(<<K_temp \o <<".">> \o K_fahrenheit, K_f>>), Num(0)))],
     wind |->
        [description |-> FieldDefaults.wind.description,
         direction |-> getWindDirection(defaultExport(json,
            One(K_wind \o <<".">> \o K_direction), Undefined)),
         speed |-> JsNumber(defaultExport(json,
            One(K_wind \o <<".">> \o K_speed), Num(0)))]]

\* The constructor's branch for a truthy arg.json.
FromJson(json) ==
    [error |-> FieldDefaults.error,
     temperature |->
        [celsius |-> JsNumber(defaultExport(json,
            Many(<<K_c, K_temp \o <<".">> \o K_celsius>>), Num(0))),
         fahrenheit |-> JsNumber(defaultExport(json,
            Many(<<K_f, K_temp \o <<".">> \o K_fahrenheit>>), Num(0)))],
     wind |->
        [description |-> FieldDefaults.wind.description,
         direction |-> getWindDirection(defaultExport(json,
            One(K_wind \o <<".">> \o K_direction), Undefined)),
         speed |-> JsNumber(defaultExport(json,
            One(K_wind \o <<".">> \o K_speed), Num(0)))]]

\* a || b
Or(a, b) == IF JsBoolean(a) = Bool(TRUE) THEN a ELSE b

\* The constructor's else branch; an absent property of arg is undefined.
FromFields(arg) ==
    [error |-> JsString(Or(arg.error, S_empty)),
     temperature |-> IF arg.temperature = Undefined
                     THEN FieldDefaults.temperature ELSE arg.temperature,
     wind |-> IF arg.wind = Undefined THEN FieldDefaults.wind ELSE arg.wind]

\* speed < 20 && 'calm' || speed < 40 && 'windy' || 'very windy'
Description(speed) ==
    IF LessThan(speed, CalmBelow) THEN S_calm
    ELSE IF LessThan(speed, WindyBelow) THEN S_windy
    ELSE S_very_windy

\* A constructor that leaves wind.description as the field initialiser or the
\* argument gave it.
Described_Stale(state) == state

\* this.wind.description = ...
Described(state) == [state EXCEPT !.wind.description = Description(state.wind.speed)]

\* new WeatherState(arg), arg = [json, error, temperature, wind]
WeatherState(arg) ==
    Described(IF JsBoolean(arg.json) = Bool(TRUE) THEN FromJson(arg.json) ELSE FromFields(arg))

\* new WeatherState(): the argument defaults to {json: undefined}
InitialWeather ==
    WeatherState([json |-> Undefined, error |-> Undefined,
                  temperature |-> Undefined, wind |-> Undefined])

\* An action is [type, error, json]; a property it lacks is undefined.
ActionError(err) == [type |-> "ERROR", error |-> err, json |-> Undefined]
ActionFetch == [type |-> "FETCH", error |-> Undefined, json |-> Undefined]
ActionFetched(json) == [type |-> "FETCHED", error |-> Undefined, json |-> json]
ActionOther == [type |-> "__EMPTY_OPERATION__", error |-> Undefined, json |-> Undefined]
NoAction == [type |-> "none", error |-> Undefined, json |-> Undefined]

\* Reducer, whose FETCH case spreads the state without resetting error.
Reducer_FetchKeepsError(state, action) ==
    CASE action.type = "ERROR" ->
            WeatherState([json |-> Undefined, error |-> JsString(action.error),
                          temperature |-> state.temperature, wind |-> state.wind])
      [] action.type = "FETCH" ->
            WeatherState([json |-> Undefined, error |-> state.error,
                          temperature |-> state.temperature, wind |-> state.wind])
      [] action.type = "FETCHED" ->
            WeatherState([json |-> JsObject(action.json), error |-> S_empty,
                          temperature |-> state.temperature, wind |-> state.wind])
      [] OTHER -> state

\* Reducer, whose FETCH case builds the new state without spreading the old one.
Reducer_FetchDropsState(state, action) ==
    CASE action.type = "ERROR" ->
            WeatherState([json |-> Undefined, error |-> JsString(action.error),
                          temperature |-> state.temperature, wind |-> state.wind])
      [] action.type = "FETCH" ->
            WeatherState([json |-> Undefined, error |-> S_empty,
                          temperature |-> Undefined, wind |-> Undefined])
      [] action.type = "FETCHED" ->
            WeatherState([json |-> JsObject(action.json), error |-> S_empty,
                          temperature |-> state.temperature, wind |-> state.wind])
      [] OTHER -> state

\* Reducer.weather(state, action)
Reducer(state, action) ==
    CASE action.type = "ERROR" ->
            WeatherState([json |-> Undefined, error |-> JsString(action.error),
                          temperature |-> state.temperature, wind |-> state.wind])
      [] action.type = "FETCH" ->
            WeatherState([json |-> Undefined, error |-> S_empty,
                          temperature |-> state.temperature, wind |-> state.wind])
      [] action.type = "FETCHED" ->
            WeatherState([json |-> JsObject(action.json), error |-> S_empty,
                          temperature |-> state.temperature, wind |-> state.wind])
      [] OTHER -> state

\* What the object passed as state holds once Reducer.weather has returned.
\* On ERROR and FETCH the constructor takes the else branch and the new
\* state's wind is the very object of the old state (this.wind = arg.wind), so
\* the write of this.wind.description lands in the old state as well; on
\* FETCHED the new state gets fresh temperature and wind objects.
PreviousAfter(state, action) ==
    IF action.type \in {"ERROR", "FETCH"}
    THEN [state EXCEPT !.wind = Reducer(state, action).wind]
    ELSE state

\* emptyOr(or): {} or the object given
emptyOr(props) == {NoProps, props}

\* Stand-ins for the values of Math.random() * 10, * 50 and * 60.
Celsius == {3}
Fahrenheit == {37}
LegacyCelsius == {5}
LegacyFahrenheit == {41}
Speeds == {10, 25, 45}

Merge(f, g) == f @@ g

\* The parts of the payload Epic.fetchWeather builds.
EpicC == UNION {emptyOr(K_c :> Num(x)) : x \in Celsius}
EpicF == UNION {emptyOr(K_f :> Num(x)) : x \in Fahrenheit}
EpicTemp ==
    UNION {emptyOr(Merge(tc, tf)) :
              tc \in UNION {emptyOr(K_celsius :> Num(x)) : x \in LegacyCelsius},
              tf \in UNION {emptyOr(K_fahrenheit :> Num(x)) : x \in LegacyFahrenheit}}
EpicWind ==
    {Merge(speed, K_direction :> dir) :
        speed \in UNION {emptyOr(K_speed :> Num(x)) : x \in Speeds},
        dir \in {cardinalPoints[i] : i \in 1..Len(cardinalPoints)}}

\* The payloads Epic.fetchWeather builds.
EpicPayloads ==
    {Obj(Merge(pc, Merge(pf, K_temp :> Obj(ptemp) @@ K_wind :> Obj(pwind)))) :
        pc \in EpicC, pf \in EpicF, ptemp \in EpicTemp, pwind \in EpicWind}

\* Payloads of other shapes a FETCHED action may carry.
OtherPayloads ==
    {Undefined, Null, Num(5), Obj(NoProps),
     Obj(K_c :> Null @@ K_temp :> Obj(K_celsius :> Num(5))),
     Obj(K_c :> Undefined @@ K_temp :> Obj(K_celsius :> Num(5))),
     Obj(K_c :> Str(<<"7">>) @@ K_f :> Str(<<"x">>)),
     Obj(K_temp :> Null @@ K_wind :> Null),
     Obj(K_temp :> Str(K_celsius) @@ K_wind :> Obj(K_speed :> Undefined)),
     Obj(K_c :> Bool(TRUE) @@ K_f :> Arr(<<Num(9)>>) @@ K_wind :> Obj(K_direction :> Str(<<"X">>)))}

Payloads == EpicPayloads \cup OtherPayloads

\* Action.error('Error: Something went wrong.') and another non-empty message
EpicMessage ==
    Str(<<"E", "r", "r", "o", "r", ":", " ", "S", "o", "m", "e", "t", "h", "i", "n", "g", " ",
          "w", "e", "n", "t", " ", "w", "r", "o", "n", "g", ".">>)
Messages == {EpicMessage, Str(<<"0">>)}

\* ----------------------------------------------------------- specification

Init ==
    /\ root \in Roots
    /\ orElse \in Defaults
    /\ call = Idle
    /\ result = Undefined
    /\ weather = InitialWeather
    /\ last = NoAction
    /\ lastKnown = NoAction

\* CallGetOrElse, storing the default under a missing first segment of root.
CallGetOrElse_Vivify ==
    /\ call.fn = "none"
    /\ \E p \in SinglePaths, rd \in BOOLEAN :
          /\ call' = [fn |-> "getOrElse", dotPath |-> One(p), requireDefined |-> rd]
          /\ result' = getOrElse(root, p, orElse, rd)
          /\ root' = IF root.t = "object" /\ Split(p)[1] \notin DOMAIN root.f
                     THEN [root EXCEPT !.f = (Split(p)[1] :> orElse) @@ @]
                     ELSE root
    /\ UNCHANGED orElse
    /\ UNCHANGED storeVars

CallGetOrElse ==
    /\ call.fn = "none"
    /\ \E p \in SinglePaths, rd \in BOOLEAN :
          /\ call' = [fn |-> "getOrElse", dotPath |-> One(p), requireDefined |-> rd]
          /\ result' = getOrElse(root, p, orElse, rd)
    /\ UNCHANGED <<root, orElse>>
    /\ UNCHANGED storeVars

CallMultiPathsGetOrElse ==
    /\ call.fn = "none"
    /\ \E ps \in PathLists :
          /\ call' = [fn |-> "multiPathsGetOrElse", dotPath |-> Many(ps), requireDefined |-> TRUE]
          /\ result' = multiPathsGetOrElse(root, ps, orElse)
    /\ UNCHANGED <<root, orElse>>
    /\ UNCHANGED storeVars

CallDefaultExport ==
    /\ call.fn = "none"
    /\ \E dp \in DotPathArgs :
          /\ call' = [fn |-> "default", dotPath |-> dp, requireDefined |-> dp.isArray]
          /\ result' = defaultExport(root, dp, orElse)
    /\ UNCHANGED <<root, orElse>>
    /\ UNCHANGED storeVars

CallGetDefinedOrElse ==
    /\ call.fn = "none"
    /\ \E dp \in DotPathArgs :
          /\ call' = [fn |-> "getDefinedOrElse", dotPath |-> dp, requireDefined |-> TRUE]
          /\ result' = getDefinedOrElse(root, dp, orElse)
    /\ UNCHANGED <<root, orElse>>
    /\ UNCHANGED storeVars

CallGetBooleanOr ==
    /\ call.fn = "none"
    /\ \E dp \in HelperArgs :
          /\ call' = [fn |-> "getBooleanOr", dotPath |-> dp, requireDefined |-> TRUE]
          /\ result' = getBooleanOr(root, dp, orElse)
    /\ UNCHANGED <<root, orElse>>
    /\ UNCHANGED storeVars

CallGetNumberOr ==
    /\ call.fn = "none"
    /\ \E dp \in HelperArgs :
          /\ call' = [fn |-> "getNumberOr", dotPath |-> dp, requireDefined |-> TRUE]
          /\ result' = getNumberOr(root, dp, orElse)
    /\ UNCHANGED <<root, orElse>>
    /\ UNCHANGED storeVars

CallGetObjectOr ==
    /\ call.fn = "none"
    /\ \E dp \in HelperArgs :
          /\ call' = [fn |-> "getObjectOr", dotPath |-> dp, requireDefined |-> TRUE]
          /\ result' = getObjectOr(root, dp, orElse)
    /\ UNCHANGED <<root, orElse>>
    /\ UNCHANGED storeVars

CallGetStringOr ==
    /\ call.fn = "none"
    /\ \E dp \in HelperArgs :
          /\ call' = [fn |-> "getStringOr", dotPath |-> dp, requireDefined |-> TRUE]
          /\ result' = getStringOr(root, dp, orElse)
    /\ UNCHANGED <<root, orElse>>
    /\ UNCHANGED storeVars

\* The caller takes the returned value; the next call may start.
Return ==
    /\ call.fn # "none"
    /\ call' = Idle
    /\ result' = Undefined
    /\ UNCHANGED <<root, orElse>>
    /\ UNCHANGED storeVars

Next ==
    \/ CallGetOrElse
    \/ CallMultiPathsGetOrElse
    \/ CallDefaultExport
    \/ CallGetDefinedOrElse
    \/ CallGetBooleanOr
    \/ CallGetNumberOr
    \/ CallGetObjectOr
    \/ CallGetStringOr
    \/ Return

Spec == Init /\ [][Next]_vars

\* The store: only the reducer runs; the resolver is called from within it.
StoreInit ==
    /\ root = Undefined
    /\ orElse = Undefined
    /\ call = Idle
    /\ result = Undefined
    /\ weather = InitialWeather
    /\ last = NoAction
    /\ lastKnown = NoAction

\* store.dispatch(action): the reducer computes the next state.
DispatchError ==
    /\ \E msg \in Messages :
          /\ weather' = Reducer(weather, ActionError(msg))
          /\ last' = ActionError(msg)
          /\ lastKnown' = ActionError(msg)
    /\ UNCHANGED resolverVars

DispatchFetch ==
    /\ weather' = Reducer(weather, ActionFetch)
    /\ last' = ActionFetch
    /\ lastKnown' = ActionFetch
    /\ UNCHANGED resolverVars

DispatchFetched ==
    /\ \E json \in Payloads :
          /\ weather' = Reducer(weather, ActionFetched(json))
          /\ last' = ActionFetched(json)
          /\ lastKnown' = ActionFetched(json)
    /\ UNCHANGED resolverVars

DispatchOther ==
    /\ weather' = Reducer(weather, ActionOther)
    /\ last' = ActionOther
    /\ UNCHANGED <<lastKnown, root, orElse, call, result>>

StoreNext ==
    \/ DispatchError
    \/ DispatchFetch
    \/ DispatchFetched
    \/ DispatchOther

StoreSpec == StoreInit /\ [][StoreNext]_vars

\* ------------------------------------------------------- claim vocabulary

\* A non-null structured (key-indexable) value: an object or an array.
Structured(v) == v.t = "object"

\* The membership test of a segment on a structured pointer.
Member(ptr, key, requireDefined) ==
    IF requireDefined THEN Lookup(ptr, key) # Undefined
    ELSE key \in DOMAIN ptr.f \cup InheritedKeys

RECURSIVE Walk(_, _, _, _)
\* The walk of segs from segment i on, starting at ptr: whether every
\* segment passed on a structured pointer, and the value reached.
Walk(ptr, segs, i, requireDefined) ==
    IF i > Len(segs) THEN [ok |-> TRUE, value |-> ptr]
    ELSE IF Structured(ptr) /\ Member(ptr, segs[i], requireDefined)
         THEN Walk(Lookup(ptr, segs[i]), segs, i + 1, requireDefined)
         ELSE [ok |-> FALSE, value |-> Undefined]

\* The walk of a dot-path from the root.
WalkFrom(r, path, requireDefined) == Walk(r, Split(path), 1, requireDefined)

\* The empty path on a structured root stands for the whole root.
WholeRoot(r, path) == path = <<>> /\ Structured(r)

\* What a path resolves to under the definedness policy, undefined if nothing.
DefinedValue(r, path) ==
    IF WholeRoot(r, path) THEN r
    ELSE IF WalkFrom(r, path, TRUE).ok THEN WalkFrom(r, path, TRUE).value
    ELSE Undefined

IsSingle == call.fn = "getOrElse"
IsMulti ==
    call.fn \in {"multiPathsGetOrElse", "default", "getDefinedOrElse"} /\ call.dotPath.isArray
ThePath == call.dotPath.path
ThePaths == call.dotPath.paths

\* ------------------------------------------------------------------ claims

\* C1: whenever the walk of a getOrElse call fails at some segment (pointer
\* null or not structured, or membership test failed), the call returns
\* exactly the default, whatever the default holds.
C1_ShortCircuit ==
    (IsSingle /\ ~WholeRoot(root, ThePath)
       /\ ~WalkFrom(root, ThePath, call.requireDefined).ok)
    => result = orElse

\* C2: a multi-path call returns the definedness value of the leftmost path
\* that resolves to something not undefined (null included), the default when
\* no path does; with two paths defined to different values the swapped list
\* gives another result.
C2_FirstMatchWins ==
    IsMulti =>
      LET defined == {i \in 1..Len(ThePaths) : DefinedValue(root, ThePaths[i]) # Undefined}
      IN  /\ defined = {} => result = orElse
          /\ \A i \in defined :
                (\A j \in defined : i <= j) => result = DefinedValue(root, ThePaths[i])
          /\ (Len(ThePaths) = 2 /\ defined = {1, 2}
                /\ DefinedValue(root, ThePaths[1]) # DefinedValue(root, ThePaths[2]))
             => multiPathsGetOrElse(root, <<ThePaths[2], ThePaths[1]>>, orElse) # result

C2_Witness ==
    /\ IsMulti
    /\ Len(ThePaths) = 2
    /\ DefinedValue(root, ThePaths[1]) = Null
    /\ DefinedValue(root, ThePaths[2]) = Num(5)
    /\ result = Null
    /\ orElse = Num(0)

\* C3: when the key a non-empty path addresses exists but holds undefined,
\* getOrElse returns the default with requireDefined, and undefined without.
C3_DefinedVersusExists ==
    (IsSingle /\ ThePath # <<>>
       /\ WalkFrom(root, ThePath, FALSE).ok
       /\ WalkFrom(root, ThePath, FALSE).value = Undefined)
    => result = IF call.requireDefined THEN orElse ELSE Undefined

C3_Witness ==
    /\ IsSingle
    /\ Len(Split(ThePath)) = 3
    /\ WalkFrom(root, ThePath, FALSE).ok
    /\ WalkFrom(root, ThePath, FALSE).value = Undefined
    /\ call.requireDefined
    /\ orElse = Num(0)
    /\ result = Num(0)

\* C4: when every segment of a non-empty path passes the membership test on
\* a structured pointer, getOrElse returns the value under the last segment.
C4_SuccessfulWalk ==
    (IsSingle /\ ThePath # <<>> /\ WalkFrom(root, ThePath, call.requireDefined).ok)
    => result = WalkFrom(root, ThePath, call.requireDefined).value

C4_Witness ==
    /\ IsSingle
    /\ Len(Split(ThePath)) = 2
    /\ WalkFrom(root, ThePath, call.requireDefined).ok
    /\ result = Null
    /\ orElse = Num(0)

\* C5: on the empty path getOrElse returns the root when it is a non-null
\* structured value and the default otherwise.
C5_EmptyPath ==
    (IsSingle /\ ThePath = <<>>)
    => result = IF Structured(root) THEN root ELSE orElse

C5_Witness ==
    /\ IsSingle
    /\ ThePath = <<>>
    /\ root = Obj(NoProps)
    /\ orElse = Num(0)
    /\ result = root

\* C6: each typed helper returns a value of the type it names.
C6_TypedHelpers ==
    /\ call.fn = "getBooleanOr" => result.t = "boolean"
    /\ call.fn = "getNumberOr" => result.t = "number"
    /\ call.fn = "getObjectOr" => result.t = "object"
    /\ call.fn = "getStringOr" => result.t = "string"

\* The entry points never raise (the part of C7 that holds).
NeverRaises == call.fn # "none" => ~Raises(result)

\* C7: the public entry points never raise, and whatever is missing (a key,
\* a null or non-structured intermediate) comes back as the default.
C7_MissingIsDefault ==
    call.fn \in {"default", "getDefinedOrElse"} =>
      /\ ~Raises(result)
      /\ (~call.dotPath.isArray /\ ~WholeRoot(root, ThePath)
            /\ ~WalkFrom(root, ThePath, call.requireDefined).ok) => result = orElse
      /\ (call.dotPath.isArray
            /\ \A i \in 1..Len(ThePaths) : DefinedValue(root, ThePaths[i]) = Undefined)
         => result = orElse

\* What the call that has returned gives on the root and default given.
Applied(cl, r, oe) ==
    CASE cl.fn = "getOrElse" -> getOrElse(r, cl.dotPath.path, oe, cl.requireDefined)
      [] cl.fn = "multiPathsGetOrElse" -> multiPathsGetOrElse(r, cl.dotPath.paths, oe)
      [] cl.fn = "default" -> defaultExport(r, cl.dotPath, oe)
      [] cl.fn = "getDefinedOrElse" -> getDefinedOrElse(r, cl.dotPath, oe)
      [] cl.fn = "getBooleanOr" -> getBooleanOr(r, cl.dotPath, oe)
      [] cl.fn = "getNumberOr" -> getNumberOr(r, cl.dotPath, oe)
      [] cl.fn = "getObjectOr" -> getObjectOr(r, cl.dotPath, oe)
      [] cl.fn = "getStringOr" -> getStringOr(r, cl.dotPath, oe)
      [] OTHER -> Undefined

\* C8: no call changes the root or the default, and in any sequence of calls
\* each returns what it returns on the root and default as they are.
C8_ReadOnly ==
    /\ [][root' = root /\ orElse' = orElse]_vars
    /\ [](call.fn # "none" => result = Applied(call, root, orElse))

C8_Witness ==
    /\ IsSingle
    /\ Structured(root)
    /\ Structured(orElse)
    /\ ~WalkFrom(root, ThePath, call.requireDefined).ok
    /\ ThePath # <<>>

\* a.key where a may be anything: undefined unless a is an object holding key
Prop(v, key) == IF v.t = "object" /\ key \in DOMAIN v.f THEN v.f[key] ELSE Undefined

\* Number(j[direct]) if defined, else Number(j.temp[legacy]) if defined, else 0
Reading(j, direct, legacy) ==
    IF Prop(j, direct) # Undefined THEN JsNumber(Prop(j, direct))
    ELSE IF Prop(Prop(j, K_temp), legacy) # Undefined
         THEN JsNumber(Prop(Prop(j, K_temp), legacy))
         ELSE Num(0)

\* C9: after a FETCHED action with payload j the temperature is a function
\* of j alone: Number(j.c), else Number(j.temp.celsius), else 0, and the
\* same for fahrenheit with j.f and j.temp.fahrenheit.
C9_PayloadNormalization ==
    last.type = "FETCHED" =>
      /\ weather.temperature.celsius = Reading(last.json, K_c, K_celsius)
      /\ weather.temperature.fahrenheit = Reading(last.json, K_f, K_fahrenheit)

C9_Witness ==
    /\ last.type = "FETCHED"
    /\ Prop(last.json, K_c) = Num(3)
    /\ Prop(Prop(last.json, K_temp), K_celsius) = Num(5)
    /\ Prop(last.json, K_f) = Undefined
    /\ Prop(Prop(last.json, K_temp), K_fahrenheit) = Num(41)
    /\ weather.temperature = [celsius |-> Num(3), fahrenheit |-> Num(41)]

\* C10: the error field is non-empty exactly when the last FETCH, FETCHED or
\* ERROR action handled was an ERROR, and then it is that action's message.
C10_ErrorLifecycle ==
    /\ weather.error # S_empty <=> lastKnown.type = "ERROR"
    /\ lastKnown.type = "ERROR" => weather.error = lastKnown.error

C10_Witness ==
    /\ last = ActionOther
    /\ lastKnown = ActionError(EpicMessage)
    /\ weather.error = EpicMessage
    /\ weather.temperature.celsius = Num(3)

\* a >= b on a number value; false when a is NaN
AtLeast(a, b) == ~IsNaN(a) /\ a.n >= b

\* C11, as stated: in every state reached through the reducer the wind
\* description is 'calm' exactly when speed < 20, 'windy' exactly when
\* 20 <= speed < 40 and 'very windy' exactly when speed >= 40.
C11_WindConsistent ==
    LET speed == weather.wind.speed
        description == weather.wind.description
    IN /\ description = S_calm <=> LessThan(speed, CalmBelow)
       /\ description = S_windy <=>
              (AtLeast(speed, CalmBelow) /\ LessThan(speed, WindyBelow))
       /\ description = S_very_windy <=> AtLeast(speed, WindyBelow)

\* C11, amended: the speed is always a number value; the description is
\* 'calm' exactly when speed < 20, 'windy' exactly when 20 <= speed < 40, and
\* 'very windy' exactly when speed >= 40 or the speed is NaN (a payload whose
\* wind.speed does not convert to a number).
C11_WindDescription ==
    LET speed == weather.wind.speed
        description == weather.wind.description
    IN /\ speed.t = "number"
       /\ description = S_calm <=> LessThan(speed, CalmBelow)
       /\ description = S_windy <=>
              (AtLeast(speed, CalmBelow) /\ LessThan(speed, WindyBelow))
       /\ description = S_very_windy <=>
              (AtLeast(speed, WindyBelow) \/ IsNaN(speed))

\* A NaN speed, described as 'very windy', kept through a later FETCH.
C11_Witness ==
    /\ last = ActionFetch
    /\ lastKnown = ActionFetch
    /\ IsNaN(weather.wind.speed)
    /\ weather.wind.description = S_very_windy

\* C12: handling a FETCH action, an ERROR action or an action of an unknown
\* type leaves the state's temperature and wind equal to those of the previous
\* state, and leaves the fields of the previous state object as they were;
\* only FETCHED resolves readings from a payload.
C12_OnlyPayloadChangesReadings ==
    [][last'.type \in {"FETCH", "ERROR", "__EMPTY_OPERATION__"} =>
          /\ weather'.temperature = weather.temperature
          /\ weather'.wind = weather.wind
          /\ PreviousAfter(weather, last') = weather]_vars

\* An ERROR handled in a state whose readings came from a payload.
C12_Witness ==
    /\ last.type = "ERROR"
    /\ weather.temperature.celsius = Num(3)
    /\ weather.temperature.fahrenheit = Num(41)
    /\ weather.wind.speed = Num(45)
    /\ weather.wind.direction = Str(<<"W">>)
    /\ weather.wind.description = S_very_windy

\* C13: for every root, single path p and default d, structured defaults
\* included, getDefinedOrElse(root, p, d) returns the same value as
\* getDefinedOrElse(root, [p], d).
C13_PathShape ==
    (call.fn = "getDefinedOrElse" /\ ~call.dotPath.isArray)
    => result = getDefinedOrElse(root, Many(<<ThePath>>), orElse)

====
